---- MODULE Spec2Model ----
(***************************************************************************)
(* Model of DefaultWorker.Generate (internal/pkg/mining/block_generate.go): *)
(* one block-generation attempt as a sequence of collaborator calls, with   *)
(* the pure helpers divideMessages and aggregateBLS as operators.           *)
(***************************************************************************)
EXTENDS Integers, Sequences, FiniteSets, TLC

(* ------------------------------ bounds --------------------------------- *)

\* Number of distinct signed messages that can be pending.
NumMsgs == 3

\* Number of distinct messages in the pool that concurrent calls share.
MaxSharedMsgs == 2

\* Largest small caller-supplied nullBlockCount.
MaxNullBlocks == 1

\* Width in bits of Go's uint64 (scaled down): heights and null block counts
\* are unsigned integers below 2^UintBits, and their sums wrap.
UintBits == 5

\* Length of the fixed-size bls.Signature array (scaled down).
SignatureBytes == 2

\* Longest input sequence given to divideMessages in SpecDivide.
MaxDivLen == 4

(* ---------------------------- data model ------------------------------- *)

\* Keys of the defined parent tip sets a caller can pass.
TipSetKeys == {1, 2}

\* The (tickets, election proof) input a caller passes: Generate only copies
\* it, so one value, different from the zero value, stands for all.
Elections == {2}

\* The Unix times the clock can report.
Times == {1, 2}

\* The largest unsigned integer, and the null block counts a caller can pass:
\* the small ones and the largest.
MaxUint == 2^UintBits - 1

NullBlockCounts == (0..MaxNullBlocks) \cup {MaxUint}

\* address.BLS and the other (secp256k1) address protocol.
BLS == "BLS"

SECP == "SECP"

\* Sender protocol of the message with nonce id.
ProtocolOf(id) == IF id % 2 = 1 THEN BLS ELSE SECP

\* Raw signature bytes: a BLS signature fills the bls.Signature array, a
\* secp signature is shorter.
SignatureOf(id) ==
    [i \in 1..(IF ProtocolOf(id) = BLS THEN SignatureBytes ELSE SignatureBytes - 1) |-> id]

\* types.SignedMessage: the unsigned body (Message) and the signature.
\* cidFails says that msg.Cid() returns an error for this message.
SignedMessage(id) ==
    [Message   |-> [From |-> ProtocolOf(id), Nonce |-> id],
     Signature |-> SignatureOf(id),
     cidFails  |-> (id % 3 = 0)]

Msgs == {SignedMessage(id) : id \in 1..NumMsgs}

\* block.TipSet: an undefined tip set (whose Height() fails) and the defined ones.
UndefinedTipSet == [key |-> 0, height |-> 0, defined |-> FALSE]

TipSets == {UndefinedTipSet} \cup {[key |-> k, height |-> 9 + k, defined |-> TRUE] : k \in TipSetKeys}

\* A content identifier: the reference of content x in content-addressed storage.
CidOf(x) == [cid |-> x, defined |-> TRUE]

\* cid.Undef: the zero content identifier.
UndefCid == [cid |-> <<>>, defined |-> FALSE]

\* Go's nil pointer and a non-nil pointer to b.
NilBlock == <<>>

SomeBlock(b) == <<b>>

\* A Go slice: nil or not, and its elements.
NilSlice == [isNil |-> TRUE, elems |-> <<>>]

EmptySlice == [isNil |-> FALSE, elems |-> <<>>]

GoAppend(s, x) == [isNil |-> FALSE, elems |-> Append(s.elems, x)]

\* The identities of the worker.
MinerAddr == "minerAddr"

MinerOwnerAddr == "minerOwnerAddr"

(* ------------------------------ state ---------------------------------- *)

VARIABLES
    pool,               \* messageSource: the pending messages
    pc,                 \* position of the Generate call
    args,               \* baseTipSet, tickets, electionProof, nullBlockCount
    stateTree,          \* the state tree loaded for baseTipSet
    powerTable,         \* the power table snapshot: the miners that have power
    weight,
    blockHeight,
    ancestors,
    drained,            \* mq.Drain()
    messages,           \* the sequence handed to the processor
    applied,            \* arguments of the ApplyMessagesAndPayRewards call
    res,                \* the processor's response
    removed,            \* permanent failures the loop of line 133 has gone through
    newStateTreeCid,
    receipts,
    minedSecpMessages,
    minedBLSMessages,
    unwrappedBLSMessages,
    blsAggregateSig,
    storedMessages,     \* arguments of the StoreMessages call
    storedReceipts,     \* argument of the StoreReceipts call
    txMeta,
    rcptsCid,
    next,               \* the block being assembled
    workerAddr,
    signedData,         \* arguments of the SignBytes call
    clockNow,           \* what w.clock.Now().Unix() answered
    ret,                \* what Generate returned: (block, err)
    calls,              \* collaborator calls made by the current Generate call
    pool0,              \* the pool when the current Generate call started
    dmIn,               \* SpecDivide: input of divideMessages
    dmOut,              \* SpecDivide: <<>>, or its two outputs and the application order
    invocations         \* SpecConcurrent: the state of each Generate call sharing the pool

ctxVars == <<stateTree, powerTable, weight, blockHeight, ancestors>>

msgVars == <<drained, messages, applied, res, removed>>

minedVars == <<receipts, minedSecpMessages, minedBLSMessages, unwrappedBLSMessages, blsAggregateSig>>

storeVars == <<storedMessages, storedReceipts, txMeta, rcptsCid>>

blockVars == <<next, workerAddr, signedData, clockNow>>

divVars == <<dmIn, dmOut, invocations>>

vars == <<pool, pc, args, ctxVars, msgVars, newStateTreeCid, minedVars, storeVars,
          blockVars, ret, calls, pool0, divVars>>

(* --------------------------- pure helpers ------------------------------ *)

\* divideMessages: the loop of lines 181-187, from index i on.
RECURSIVE divideLoop(_, _, _, _)
divideLoop(msgs, i, secpMessages, blsMessages) ==
    IF i > Len(msgs)
    THEN <<secpMessages, blsMessages>>
    ELSE IF msgs[i].Message.From = BLS
         THEN divideLoop(msgs, i + 1, secpMessages, Append(blsMessages, msgs[i]))
         ELSE divideLoop(msgs, i + 1, Append(secpMessages, msgs[i]), blsMessages)

\* Faulty variant of divideMessages: the two results are returned in the other order.
divideMessagesSwapped(msgs) == <<divideLoop(msgs, 1, <<>>, <<>>)[2], divideLoop(msgs, 1, <<>>, <<>>)[1]>>

\* divideMessages returns (secpMessages, blsMessages).
divideMessages(msgs) == divideLoop(msgs, 1, <<>>, <<>>)

\* copy(blsSig[:], sig): the first SignatureBytes bytes of sig, zero padded.
CopySig(sig) == [i \in 1..SignatureBytes |-> IF i <= Len(sig) THEN sig[i] ELSE 0]

\* aggregateBLS: the loop of lines 160-169, giving (unwrappedMsgs, sigs).
RECURSIVE aggregateLoop(_, _, _, _)
aggregateLoop(blsMessages, i, unwrappedMsgs, sigs) ==
    IF i > Len(blsMessages)
    THEN <<unwrappedMsgs, sigs>>
    ELSE aggregateLoop(blsMessages, i + 1,
                       Append(unwrappedMsgs, blsMessages[i].Message),
                       Append(sigs, CopySig(blsMessages[i].Signature)))

\* bls.Aggregate on success: the aggregate of the given signatures.
Aggregate(sigs) == [kind |-> "aggregate", of |-> sigs]

\* types.Signature{}: the zero signature.
ZeroSignature == [kind |-> "zero", of |-> <<>>]

\* Faulty variant of aggregateBLS: the loop misses the first message.
aggregateBLSSkipFirst(blsMessages, aggOk) ==
    LET r == aggregateLoop(blsMessages, 2, <<>>, <<>>)
    IN  IF aggOk
        THEN [unwrapped |-> r[1], sig |-> Aggregate(r[2]), err |-> ""]
        ELSE [unwrapped |-> <<>>, sig |-> ZeroSignature, err |-> "could not aggregate signatures"]

\* aggregateBLS(blsMessages) when bls.Aggregate answers aggOk:
\* (unwrapped bodies, aggregate signature, error).
aggregateBLS(blsMessages, aggOk) ==
    LET r == aggregateLoop(blsMessages, 1, <<>>, <<>>)
    IN  IF aggOk
        THEN [unwrapped |-> r[1], sig |-> Aggregate(r[2]), err |-> ""]
        ELSE [unwrapped |-> <<>>, sig |-> ZeroSignature, err |-> "could not aggregate signatures"]

\* The receipts loop of lines 87-90, from index i on.
RECURSIVE receiptsLoop(_, _, _)
receiptsLoop(results, i, acc) ==
    IF i > Len(results) THEN acc
    ELSE receiptsLoop(results, i + 1, GoAppend(acc, results[i].Receipt))

\* Faulty variant of CollectReceipts: receipts starts as the nil slice.
CollectReceiptsFromNil(results) == receiptsLoop(results, 1, NilSlice)

\* receipts := []*types.MessageReceipt{} followed by the loop.
CollectReceipts(results) == receiptsLoop(results, 1, EmptySlice)

\* Faulty variant of BlockHeightOf: the null blocks are not counted.
BlockHeightOfNoNulls(baseHeight, nullBlockCount) == (baseHeight + 1) % 2^UintBits

\* blockHeight := baseHeight + nullBlockCount + 1, in unsigned arithmetic.
BlockHeightOf(baseHeight, nullBlockCount) == (baseHeight + nullBlockCount + 1) % 2^UintBits

\* Faulty variant of ApplicationOrder: the secp messages come first.
ApplicationOrderSecpFirst(secpMessages, blsMessages) == secpMessages \o blsMessages

\* messages := append(blsMessages, secpMessages...)
ApplicationOrder(secpMessages, blsMessages) == blsMessages \o secpMessages

(* --------------------------- collaborators ----------------------------- *)

\* All orders in which a set of messages can come out of the message queue.
Orderings(S) ==
    {s \in [1..Cardinality(S) -> S] : \A i, j \in 1..Cardinality(S) : i # j => s[i] # s[j]}

\* The state tree of a tip set, before any message is applied.
StateTreeOf(ts) == [parent |-> ts.key, applied |-> <<>>]

\* The weight oracle.
WeightOf(ts) == 100 + ts.height

\* The ancestor chain of ts up to height h.
AncestorsOf(ts, h) == [of |-> ts.key, upTo |-> h]

\* The receipt of executing message m.
ReceiptOf(m) == [ExitCode |-> 0, Return |-> m.Message.Nonce]

\* The processor's response when outcome[i] classifies msgs[i]
\* ("ok", "perm" or "temp"), from index i on.
RECURSIVE applyLoop(_, _, _, _)
applyLoop(msgs, outcome, i, r) ==
    IF i > Len(msgs) THEN r
    ELSE LET m == msgs[i] IN
         applyLoop(msgs, outcome, i + 1,
            CASE outcome[i] = "ok" ->
                   [r EXCEPT !.SuccessfulMessages = Append(@, m),
                             !.Results = Append(@, [Receipt |-> ReceiptOf(m)])]
              [] outcome[i] = "perm" ->
                   [r EXCEPT !.PermanentFailures = Append(@, m),
                             !.PermanentErrors = Append(@, "permanent")]
              [] OTHER ->
                   [r EXCEPT !.TemporaryFailures = Append(@, m),
                             !.TemporaryErrors = Append(@, "temporary")])

EmptyResponse ==
    [Results |-> <<>>, SuccessfulMessages |-> <<>>,
     PermanentFailures |-> <<>>, PermanentErrors |-> <<>>,
     TemporaryFailures |-> <<>>, TemporaryErrors |-> <<>>]

ApplyMessagesAndPayRewards(msgs, outcome) == applyLoop(msgs, outcome, 1, EmptyResponse)

\* The state tree after the processor applied the successful messages.
StateTreeAfter(st, response) ==
    [st EXCEPT !.applied = [i \in 1..Len(response.SuccessfulMessages) |->
                               response.SuccessfulMessages[i].Message.Nonce]]

\* messageStore.StoreMessages and StoreReceipts return the reference of what they stored.
StoreMessagesRef(secp, bls) == CidOf([secp |-> secp, bls |-> bls])

StoreReceiptsRef(rcpts) == CidOf(rcpts)

\* api.MinerGetWorkerAddress(minerAddr, key)
WorkerAddressOf(miner, key) == [workerOf |-> miner, at |-> key]

\* SignatureData: the block without its BlockSig.
SignatureData(b) == [f \in (DOMAIN b) \ {"BlockSig"} |-> b[f]]

\* workerSigner.SignBytes(data, addr)
SignBytes(data, addr) == [signed |-> data, by |-> addr]

\* messageSource.Remove(mc)
Remove(p, mc) == {m \in p : CidOf(m) # mc}

(* ---------------------------- zero values ------------------------------ *)

ZeroArgs == [baseTipSet |-> UndefinedTipSet, tickets |-> <<>>, electionProof |-> 0, nullBlockCount |-> 0]

ZeroStateTree == [parent |-> 0, applied |-> <<>>]

ZeroAncestors == [of |-> 0, upTo |-> 0]

ZeroApplied == [stateTree |-> ZeroStateTree, messages |-> <<>>, minerOwnerAddr |-> "", height |-> 0, ancestors |-> ZeroAncestors]

ZeroStoredMessages == [secp |-> <<>>, bls |-> <<>>]

ZeroAddress == [workerOf |-> "", at |-> 0]

ZeroBlockSig == [signed |-> <<>>, by |-> ZeroAddress]

ZeroBlock ==
    [Miner |-> "", Height |-> 0, Messages |-> UndefCid, MessageReceipts |-> UndefCid,
     Parents |-> 0, ParentWeight |-> 0, ElectionProof |-> 0, StateRoot |-> UndefCid,
     Tickets |-> <<>>, Timestamp |-> 0, BLSAggregateSig |-> ZeroSignature,
     BlockSig |-> ZeroBlockSig]

ZeroSigned == [data |-> <<>>, addr |-> ZeroAddress]

NoReturn == [block |-> NilBlock, err |-> ""]

(* ------------------------------- Init ---------------------------------- *)

\* The worker before any Generate call, with pending messages p.
InitWorker(p) ==
    /\ pool = p
    /\ pc = "idle"
    /\ args = ZeroArgs
    /\ stateTree = ZeroStateTree
    /\ powerTable = {}
    /\ weight = 0
    /\ blockHeight = 0
    /\ ancestors = ZeroAncestors
    /\ drained = <<>>
    /\ messages = <<>>
    /\ applied = ZeroApplied
    /\ res = EmptyResponse
    /\ removed = 0
    /\ newStateTreeCid = UndefCid
    /\ receipts = NilSlice
    /\ minedSecpMessages = <<>>
    /\ minedBLSMessages = <<>>
    /\ unwrappedBLSMessages = <<>>
    /\ blsAggregateSig = ZeroSignature
    /\ storedMessages = ZeroStoredMessages
    /\ storedReceipts = NilSlice
    /\ txMeta = UndefCid
    /\ rcptsCid = UndefCid
    /\ next = ZeroBlock
    /\ workerAddr = ZeroAddress
    /\ signedData = ZeroSigned
    /\ clockNow = 0
    /\ ret = NoReturn
    /\ calls = <<>>
    /\ pool0 = p

Init ==
    /\ \E p \in SUBSET Msgs : InitWorker(p)
    /\ dmIn = <<>>
    /\ dmOut = <<>>
    /\ invocations = <<>>

(* ------------------------------ Generate ------------------------------- *)

\* Faulty variant of removeOne: Remove is not called.
removeOneKeeping(p, msg) == p

\* One iteration of the loop of lines 133-145, for the failure msg:
\* mc, err := msg.Cid(); if err == nil { w.messageSource.Remove(mc) } else { log.Warnf(...) }
removeOne(p, msg) == IF msg.cidFails THEN p ELSE Remove(p, CidOf(msg))

\* Faulty variant of FailuresToRemove: temporary failures are removed as well.
FailuresToRemoveAll(response) == response.PermanentFailures \o response.TemporaryFailures

\* The messages the loop of line 133 ranges over.
FailuresToRemove(response) == response.PermanentFailures

\* The collaborator call op, and whether it succeeded, joins the calls of this attempt.
Log(op, ok) == calls' = Append(calls, [op |-> op, ok |-> ok])

\* Faulty variant of ReturnError: the first permanent failure is removed on
\* the error path too.
ReturnErrorReconciling(e) ==
    /\ ret' = [block |-> NilBlock, err |-> e]
    /\ pool' = IF FailuresToRemove(res) = <<>> THEN pool
               ELSE removeOne(pool, FailuresToRemove(res)[1])
    /\ pc' = "done"

\* return nil, errors.Wrap(err, e): no block, and the pool is not touched.
ReturnError(e) ==
    /\ ret' = [block |-> NilBlock, err |-> e]
    /\ pool' = pool
    /\ pc' = "done"

\* A caller invokes Generate(ctx, baseTipSet, tickets, electionProof, nullBlockCount).
\* A behaviour holds one call: a later call would start from a pool that is
\* itself an initial state, with every local set anew.
Call ==
    /\ pc = "idle"
    /\ \E ts \in TipSets, e \in Elections, n \in NullBlockCounts :
          args' = [baseTipSet |-> ts, tickets |-> <<[VRFProof |-> e]>>,
                   electionProof |-> 100 + e, nullBlockCount |-> n]
    /\ pc' = "getStateTree"
    /\ stateTree' = ZeroStateTree
    /\ powerTable' = {}
    /\ weight' = 0
    /\ blockHeight' = 0
    /\ ancestors' = ZeroAncestors
    /\ drained' = <<>>
    /\ messages' = <<>>
    /\ applied' = ZeroApplied
    /\ res' = EmptyResponse
    /\ removed' = 0
    /\ newStateTreeCid' = UndefCid
    /\ receipts' = NilSlice
    /\ minedSecpMessages' = <<>>
    /\ minedBLSMessages' = <<>>
    /\ unwrappedBLSMessages' = <<>>
    /\ blsAggregateSig' = ZeroSignature
    /\ storedMessages' = ZeroStoredMessages
    /\ storedReceipts' = NilSlice
    /\ txMeta' = UndefCid
    /\ rcptsCid' = UndefCid
    /\ next' = ZeroBlock
    /\ workerAddr' = ZeroAddress
    /\ signedData' = ZeroSigned
    /\ clockNow' = 0
    /\ ret' = NoReturn
    /\ calls' = <<>>
    /\ pool0' = pool
    /\ UNCHANGED <<pool, divVars>>

\* stateTree, err := w.getStateTree(ctx, baseTipSet)
GetStateTree ==
    /\ pc = "getStateTree"
    /\ \/ /\ stateTree' = StateTreeOf(args.baseTipSet)
          /\ pc' = "getPowerTable"
          /\ UNCHANGED <<ret, pool>>
          /\ Log("getStateTree", TRUE)
       \/ /\ ReturnError("get state tree")
          /\ Log("getStateTree", FALSE)
          /\ UNCHANGED stateTree
    /\ UNCHANGED <<args, powerTable, weight, blockHeight, ancestors, msgVars, newStateTreeCid,
                   minedVars, storeVars, blockVars, pool0, divVars>>

\* Faulty variant of GetPowerTable: the weight lookup follows, without the power check.
GetPowerTableThenWeight ==
    /\ pc = "getPowerTable"
    /\ \/ /\ \E pt \in SUBSET {MinerAddr} : powerTable' = pt
          /\ pc' = "getWeight"
          /\ UNCHANGED <<ret, pool>>
          /\ Log("getPowerTable", TRUE)
       \/ /\ ReturnError("get power table")
          /\ Log("getPowerTable", FALSE)
          /\ UNCHANGED powerTable
    /\ UNCHANGED <<args, stateTree, weight, blockHeight, ancestors, msgVars, newStateTreeCid,
                   minedVars, storeVars, blockVars, pool0, divVars>>

\* powerTable, err := w.getPowerTable(ctx, baseTipSet.Key())
GetPowerTable ==
    /\ pc = "getPowerTable"
    /\ \/ /\ \E pt \in SUBSET {MinerAddr} : powerTable' = pt
          /\ pc' = "hasPower"
          /\ UNCHANGED <<ret, pool>>
          /\ Log("getPowerTable", TRUE)
       \/ /\ ReturnError("get power table")
          /\ Log("getPowerTable", FALSE)
          /\ UNCHANGED powerTable
    /\ UNCHANGED <<args, stateTree, weight, blockHeight, ancestors, msgVars, newStateTreeCid,
                   minedVars, storeVars, blockVars, pool0, divVars>>

\* Faulty variant of HasPower: the answer of the power table is ignored.
HasPowerUnchecked ==
    /\ pc = "hasPower"
    /\ pc' = "getWeight"
    /\ Log("HasPower", MinerAddr \in powerTable)
    /\ UNCHANGED <<ret, pool, args, ctxVars, msgVars, newStateTreeCid,
                   minedVars, storeVars, blockVars, pool0, divVars>>

\* if !powerTable.HasPower(ctx, w.minerAddr) { return nil, ... }
HasPower ==
    /\ pc = "hasPower"
    /\ \/ /\ MinerAddr \in powerTable
          /\ pc' = "getWeight"
          /\ UNCHANGED <<ret, pool>>
          /\ Log("HasPower", TRUE)
       \/ /\ MinerAddr \notin powerTable
          /\ ReturnError("bad miner address, miner must store files before mining")
          /\ Log("HasPower", FALSE)
    /\ UNCHANGED <<args, ctxVars, msgVars, newStateTreeCid,
                   minedVars, storeVars, blockVars, pool0, divVars>>

\* weight, err := w.getWeight(ctx, baseTipSet)
GetWeight ==
    /\ pc = "getWeight"
    /\ \/ /\ weight' = WeightOf(args.baseTipSet)
          /\ pc' = "height"
          /\ UNCHANGED <<ret, pool>>
          /\ Log("getWeight", TRUE)
       \/ /\ ReturnError("get weight")
          /\ Log("getWeight", FALSE)
          /\ UNCHANGED weight
    /\ UNCHANGED <<args, stateTree, powerTable, blockHeight, ancestors, msgVars, newStateTreeCid,
                   minedVars, storeVars, blockVars, pool0, divVars>>

\* baseHeight, err := baseTipSet.Height(); blockHeight := baseHeight + nullBlockCount + 1
Height ==
    /\ pc = "height"
    /\ \/ /\ args.baseTipSet.defined
          /\ blockHeight' = BlockHeightOf(args.baseTipSet.height, args.nullBlockCount)
          /\ pc' = "getAncestors"
          /\ UNCHANGED <<ret, pool>>
          /\ Log("Height", TRUE)
       \/ /\ ~args.baseTipSet.defined
          /\ ReturnError("get base tip set height")
          /\ Log("Height", FALSE)
          /\ UNCHANGED blockHeight
    /\ UNCHANGED <<args, stateTree, powerTable, weight, ancestors, msgVars, newStateTreeCid,
                   minedVars, storeVars, blockVars, pool0, divVars>>

\* ancestors, err := w.getAncestors(ctx, baseTipSet, types.NewBlockHeight(blockHeight))
GetAncestors ==
    /\ pc = "getAncestors"
    /\ \/ /\ ancestors' = AncestorsOf(args.baseTipSet, blockHeight)
          /\ pc' = "pending"
          /\ UNCHANGED <<ret, pool>>
          /\ Log("getAncestors", TRUE)
       \/ /\ ReturnError("get base tip set ancestors")
          /\ Log("getAncestors", FALSE)
          /\ UNCHANGED ancestors
    /\ UNCHANGED <<args, stateTree, powerTable, weight, blockHeight, msgVars, newStateTreeCid,
                   minedVars, storeVars, blockVars, pool0, divVars>>

\* The sequence built from a drained queue: divide, then BLS first.
MessagesFor(d) ==
    LET parts == divideMessages(d)
    IN  ApplicationOrder(parts[1], parts[2])

\* Faulty variant of DrainPending: the drain takes the messages out of the pool.
DrainPendingRemoving ==
    /\ pc = "pending"
    /\ Log("Pending", TRUE)
    /\ \E d \in Orderings(pool) :
          /\ drained' = d
          /\ messages' = MessagesFor(d)
    /\ pc' = "apply"
    /\ pool' = {}
    /\ UNCHANGED <<args, ctxVars, applied, res, removed, newStateTreeCid,
                   minedVars, storeVars, blockVars, ret, pool0, divVars>>

\* pending := w.messageSource.Pending(); mq := NewMessageQueue(pending);
\* secpMessages, blsMessages := divideMessages(mq.Drain());
\* messages := append(blsMessages, secpMessages...)
DrainPending ==
    /\ pc = "pending"
    /\ Log("Pending", TRUE)
    /\ \E d \in Orderings(pool) :
          /\ drained' = d
          /\ messages' = MessagesFor(d)
    /\ pc' = "apply"
    /\ UNCHANGED <<pool, args, ctxVars, applied, res, removed, newStateTreeCid,
                   minedVars, storeVars, blockVars, ret, pool0, divVars>>

\* res, err := w.processor.ApplyMessagesAndPayRewards(ctx, stateTree, vms, messages,
\*     w.minerOwnerAddr, types.NewBlockHeight(blockHeight), ancestors)
ApplyMessages ==
    /\ pc = "apply"
    /\ applied' = [stateTree |-> stateTree, messages |-> messages,
                   minerOwnerAddr |-> MinerOwnerAddr, height |-> blockHeight,
                   ancestors |-> ancestors]
    /\ \/ /\ \E outcome \in [1..Len(messages) -> {"ok", "perm", "temp"}] :
                /\ res' = ApplyMessagesAndPayRewards(messages, outcome)
                /\ stateTree' = StateTreeAfter(stateTree, res')
          /\ pc' = "flushStateTree"
          /\ UNCHANGED <<ret, pool>>
          /\ Log("ApplyMessagesAndPayRewards", TRUE)
       \/ /\ ReturnError("generate apply messages")
          /\ Log("ApplyMessagesAndPayRewards", FALSE)
          /\ UNCHANGED <<res, stateTree>>
    /\ UNCHANGED <<args, powerTable, weight, blockHeight, ancestors, drained, messages, removed, newStateTreeCid,
                   minedVars, storeVars, blockVars, pool0, divVars>>

\* newStateTreeCid, err := stateTree.Flush(ctx)
FlushStateTree ==
    /\ pc = "flushStateTree"
    /\ \/ /\ newStateTreeCid' = CidOf(stateTree)
          /\ pc' = "flushStorage"
          /\ UNCHANGED <<ret, pool>>
          /\ Log("stateTree.Flush", TRUE)
       \/ /\ ReturnError("generate flush state tree")
          /\ Log("stateTree.Flush", FALSE)
          /\ UNCHANGED newStateTreeCid
    /\ UNCHANGED <<args, ctxVars, msgVars, minedVars, storeVars, blockVars, pool0, divVars>>

\* if err = vms.Flush(); err != nil { return nil, ... }
FlushStorageMap ==
    /\ pc = "flushStorage"
    /\ \/ /\ pc' = "aggregate"
          /\ UNCHANGED <<ret, pool>>
          /\ Log("vms.Flush", TRUE)
       \/ /\ ReturnError("generate flush vm storage map")
          /\ Log("vms.Flush", FALSE)
    /\ UNCHANGED <<args, ctxVars, msgVars, newStateTreeCid, minedVars, storeVars,
                   blockVars, pool0, divVars>>

\* Lines 85-99: collect the receipts, split the mined messages, aggregate the
\* BLS signatures.
AggregateSignatures ==
    /\ pc = "aggregate"
    /\ receipts' = CollectReceipts(res.Results)
    /\ minedSecpMessages' = divideMessages(res.SuccessfulMessages)[1]
    /\ minedBLSMessages' = divideMessages(res.SuccessfulMessages)[2]
    /\ \E aggOk \in BOOLEAN :
          LET a == aggregateBLS(minedBLSMessages', aggOk) IN
          /\ unwrappedBLSMessages' = a.unwrapped
          /\ blsAggregateSig' = a.sig
          /\ Log("bls.Aggregate", aggOk)
          /\ IF a.err = ""
             THEN pc' = "storeMessages" /\ UNCHANGED <<ret, pool>>
             ELSE ReturnError("could not aggregate bls messages")
    /\ UNCHANGED <<args, ctxVars, msgVars, newStateTreeCid, storeVars, blockVars, pool0, divVars>>

\* txMeta, err := w.messageStore.StoreMessages(ctx, minedSecpMessages, unwrappedBLSMessages)
StoreMessages ==
    /\ pc = "storeMessages"
    /\ storedMessages' = [secp |-> minedSecpMessages, bls |-> unwrappedBLSMessages]
    /\ \/ /\ txMeta' = StoreMessagesRef(minedSecpMessages, unwrappedBLSMessages)
          /\ pc' = "storeReceipts"
          /\ UNCHANGED <<ret, pool>>
          /\ Log("StoreMessages", TRUE)
       \/ /\ ReturnError("error persisting messages")
          /\ Log("StoreMessages", FALSE)
          /\ UNCHANGED txMeta
    /\ UNCHANGED <<args, ctxVars, msgVars, newStateTreeCid, minedVars, storedReceipts, rcptsCid,
                   blockVars, pool0, divVars>>

\* Faulty variant of StoreReceipts: its error is swallowed and the call goes on.
StoreReceiptsSwallowingError ==
    /\ pc = "storeReceipts"
    /\ storedReceipts' = receipts
    /\ \/ /\ rcptsCid' = StoreReceiptsRef(receipts)
          /\ Log("StoreReceipts", TRUE)
       \/ /\ rcptsCid' = UndefCid
          /\ Log("StoreReceipts", FALSE)
    /\ pc' = "workerAddress"
    /\ UNCHANGED <<ret, pool>>
    /\ UNCHANGED <<args, ctxVars, msgVars, newStateTreeCid, minedVars, storedMessages, txMeta,
                   blockVars, pool0, divVars>>

\* rcptsCid, err := w.messageStore.StoreReceipts(ctx, receipts)
StoreReceipts ==
    /\ pc = "storeReceipts"
    /\ storedReceipts' = receipts
    /\ \/ /\ rcptsCid' = StoreReceiptsRef(receipts)
          /\ pc' = "workerAddress"
          /\ UNCHANGED <<ret, pool>>
          /\ Log("StoreReceipts", TRUE)
       \/ /\ ReturnError("error persisting receipts")
          /\ Log("StoreReceipts", FALSE)
          /\ UNCHANGED rcptsCid
    /\ UNCHANGED <<args, ctxVars, msgVars, newStateTreeCid, minedVars, storedMessages, txMeta,
                   blockVars, pool0, divVars>>

\* Faulty variant of AssembleBlock: StateRoot is the root the state tree was loaded with.
AssembleBlockParentRoot(now) ==
    [Miner           |-> MinerAddr,
     Height          |-> blockHeight,
     Messages        |-> txMeta,
     MessageReceipts |-> rcptsCid,
     Parents         |-> args.baseTipSet.key,
     ParentWeight    |-> weight,
     ElectionProof   |-> args.electionProof,
     StateRoot       |-> CidOf(StateTreeOf(args.baseTipSet)),
     Tickets         |-> args.tickets,
     Timestamp       |-> now,
     BLSAggregateSig |-> blsAggregateSig,
     BlockSig        |-> ZeroBlockSig]

\* Faulty variant of AssembleBlock: the block records the worker's owner
\* address, the weight of the new block and no timestamp.
AssembleBlockOwnInputs(now) ==
    [Miner           |-> MinerOwnerAddr,
     Height          |-> blockHeight,
     Messages        |-> txMeta,
     MessageReceipts |-> rcptsCid,
     Parents         |-> args.baseTipSet.key,
     ParentWeight    |-> weight + 1,
     ElectionProof   |-> args.electionProof,
     StateRoot       |-> newStateTreeCid,
     Tickets         |-> args.tickets,
     Timestamp       |-> 0,
     BLSAggregateSig |-> blsAggregateSig,
     BlockSig        |-> ZeroBlockSig]

\* types.Uint64(x) of a signed 64-bit x: the unsigned integer with the same bits.
Uint64(x) == x % 2^UintBits

\* next := &block.Block{...}, with the clock reading now. blockHeight and
\* weight are unsigned already; Unix() is signed.
AssembleBlock(now) ==
    [Miner           |-> MinerAddr,
     Height          |-> blockHeight,
     Messages        |-> txMeta,
     MessageReceipts |-> rcptsCid,
     Parents         |-> args.baseTipSet.key,
     ParentWeight    |-> weight,
     ElectionProof   |-> args.electionProof,
     StateRoot       |-> newStateTreeCid,
     Tickets         |-> args.tickets,
     Timestamp       |-> Uint64(now),
     BLSAggregateSig |-> blsAggregateSig,
     BlockSig        |-> ZeroBlockSig]

\* Lines 111-127: build the block, then
\* workerAddr, err := w.api.MinerGetWorkerAddress(ctx, w.minerAddr, baseTipSet.Key())
GetWorkerAddress ==
    /\ pc = "workerAddress"
    /\ \E now \in Times : clockNow' = now /\ next' = AssembleBlock(now)
    /\ \/ /\ workerAddr' = WorkerAddressOf(MinerAddr, args.baseTipSet.key)
          /\ pc' = "sign"
          /\ UNCHANGED <<ret, pool>>
          /\ calls' = calls \o <<[op |-> "clock.Now", ok |-> TRUE],
                                 [op |-> "MinerGetWorkerAddress", ok |-> TRUE]>>
       \/ /\ ReturnError("failed to read workerAddr during block generation")
          /\ calls' = calls \o <<[op |-> "clock.Now", ok |-> TRUE],
                                 [op |-> "MinerGetWorkerAddress", ok |-> FALSE]>>
          /\ UNCHANGED workerAddr
    /\ UNCHANGED <<args, ctxVars, msgVars, newStateTreeCid, minedVars, storeVars,
                   signedData, pool0, divVars>>

\* Faulty variant of SignedBlock: the bytes are signed before the timestamp is set.
SignedBlockStale(b, addr) ==
    [b EXCEPT !.BlockSig = SignBytes(SignatureData([b EXCEPT !.Timestamp = 0]), addr)]

\* The block with next.BlockSig set by SignBytes(next.SignatureData(), workerAddr).
SignedBlock(b, addr) == [b EXCEPT !.BlockSig = SignBytes(SignatureData(b), addr)]

\* next.BlockSig, err = w.workerSigner.SignBytes(next.SignatureData(), workerAddr)
Sign ==
    /\ pc = "sign"
    /\ signedData' = [data |-> SignatureData(next), addr |-> workerAddr]
    /\ \/ /\ next' = SignedBlock(next, workerAddr)
          /\ pc' = "reconcile"
          /\ UNCHANGED <<ret, pool>>
          /\ Log("SignBytes", TRUE)
       \/ /\ ReturnError("failed to sign block")
          /\ Log("SignBytes", FALSE)
          /\ UNCHANGED next
    /\ UNCHANGED <<args, ctxVars, msgVars, newStateTreeCid, minedVars, storeVars,
                   workerAddr, clockNow, pool0, divVars>>

\* Faulty variant of RemoveFailure: a failure whose Cid() fails ends the loop.
RemoveFailureStopping ==
    /\ pc = "reconcile"
    /\ removed < Len(FailuresToRemove(res))
    /\ LET msg == FailuresToRemove(res)[removed + 1]
       IN  /\ pool' = removeOne(pool, msg)
           /\ calls' = IF msg.cidFails THEN calls
                        ELSE Append(calls, [op |-> "Remove", ok |-> TRUE])
           /\ removed' = IF msg.cidFails THEN Len(FailuresToRemove(res)) ELSE removed + 1
    /\ UNCHANGED <<pc, ret, args, ctxVars, drained, messages, applied, res, newStateTreeCid,
                   minedVars, storeVars, blockVars, pool0, divVars>>

\* One iteration of the loop of lines 133-145: the next permanent failure is
\* removed from the pool if its Cid() can be computed.
RemoveFailure ==
    /\ pc = "reconcile"
    /\ removed < Len(FailuresToRemove(res))
    /\ LET msg == FailuresToRemove(res)[removed + 1]
       IN  /\ pool' = removeOne(pool, msg)
           /\ calls' = IF msg.cidFails THEN calls
                        ELSE Append(calls, [op |-> "Remove", ok |-> TRUE])
    /\ removed' = removed + 1
    /\ UNCHANGED <<pc, ret, args, ctxVars, drained, messages, applied, res, newStateTreeCid,
                   minedVars, storeVars, blockVars, pool0, divVars>>

\* Lines 147-154: the loop over the temporary failures only logs; return next, nil.
ReturnNext ==
    /\ pc = "reconcile"
    /\ removed = Len(FailuresToRemove(res))
    /\ ret' = [block |-> SomeBlock(next), err |-> ""]
    /\ pc' = "done"
    /\ UNCHANGED <<pool, calls, args, ctxVars, msgVars, newStateTreeCid, minedVars, storeVars,
                   blockVars, pool0, divVars>>

Generate ==
    \/ Call
    \/ GetStateTree
    \/ GetPowerTable
    \/ HasPower
    \/ GetWeight
    \/ Height
    \/ GetAncestors
    \/ DrainPending
    \/ ApplyMessages
    \/ FlushStateTree
    \/ FlushStorageMap
    \/ AggregateSignatures
    \/ StoreMessages
    \/ StoreReceipts
    \/ GetWorkerAddress
    \/ Sign
    \/ RemoveFailure
    \/ ReturnNext

Next == Generate

Spec == Init /\ [][Next]_vars

(* ------------------- divideMessages on its own ------------------------- *)

\* All sequences over S of length at most n.
BoundedSeq(S, n) == UNION {[1..k -> S] : k \in 0..n}

InitDivide ==
    /\ InitWorker({})
    /\ dmIn \in BoundedSeq(Msgs, MaxDivLen)
    /\ dmOut = <<>>
    /\ invocations = <<>>

\* secpMessages, blsMessages := divideMessages(dmIn);
\* messages := append(blsMessages, secpMessages...)
Divide ==
    /\ dmOut = <<>>
    /\ dmOut' = <<divideMessages(dmIn)[1], divideMessages(dmIn)[2], MessagesFor(dmIn)>>
    /\ UNCHANGED <<pool, pc, args, ctxVars, msgVars, newStateTreeCid, minedVars, storeVars,
                   blockVars, ret, calls, pool0, dmIn, invocations>>

NextDivide == Divide

SpecDivide == InitDivide /\ [][NextDivide]_vars

(* ------------- two Generate calls sharing one message pool ------------- *)

\* The concurrent calls.
Invocations == {1, 2}

\* A call that has not started.
IdleInvocation ==
    [pc |-> "idle", didDrain |-> FALSE, pending |-> {}, drained |-> <<>>, messages |-> <<>>,
     res |-> EmptyResponse, removed |-> 0]

InitConcurrent ==
    /\ \E p \in SUBSET {SignedMessage(i) : i \in 1..MaxSharedMsgs} : InitWorker(p)
    /\ dmIn = <<>>
    /\ dmOut = <<>>
    /\ invocations = [w \in Invocations |-> IdleInvocation]

\* What the steps of a concurrent call leave alone: everything but the pool
\* and the calls' own state.
ConcurrentUnchanged ==
    UNCHANGED <<pc, args, ctxVars, msgVars, newStateTreeCid, minedVars, storeVars,
                blockVars, ret, calls, pool0, dmIn, dmOut>>

\* Faulty variant of PendingBy: the read takes the messages out of the pool.
PendingByRemoving(w) ==
    /\ invocations[w].pc = "idle"
    /\ \E d \in Orderings(pool) :
          invocations' = [invocations EXCEPT ![w].pc = "apply",
                                             ![w].didDrain = TRUE,
                                             ![w].pending = pool,
                                             ![w].drained = d,
                                             ![w].messages = MessagesFor(d)]
    /\ pool' = {}
    /\ ConcurrentUnchanged

\* Call w passed lines 32-61 and runs lines 63-68: it reads the pool,
\* drains its own queue and builds the sequence for the processor.
PendingBy(w) ==
    /\ invocations[w].pc = "idle"
    /\ \E d \in Orderings(pool) :
          invocations' = [invocations EXCEPT ![w].pc = "apply",
                                             ![w].didDrain = TRUE,
                                             ![w].pending = pool,
                                             ![w].drained = d,
                                             ![w].messages = MessagesFor(d)]
    /\ pool' = pool
    /\ ConcurrentUnchanged

\* Call w runs line 71: the processor classifies its messages.
ApplyBy(w) ==
    /\ invocations[w].pc = "apply"
    /\ \E outcome \in [1..Len(invocations[w].messages) -> {"ok", "perm", "temp"}] :
          invocations' = [invocations EXCEPT
                             ![w].pc = "finish",
                             ![w].res = ApplyMessagesAndPayRewards(invocations[w].messages, outcome)]
    /\ pool' = pool
    /\ ConcurrentUnchanged

\* Call w runs lines 76-131 without an error: none of them touches the pool.
FinishBy(w) ==
    /\ invocations[w].pc = "finish"
    /\ invocations' = [invocations EXCEPT ![w].pc = "reconcile"]
    /\ pool' = pool
    /\ ConcurrentUnchanged

\* A stage of call w before the failure loop fails: return nil, err.
FailBy(w) ==
    /\ invocations[w].pc \in {"idle", "apply", "finish"}
    /\ invocations' = [invocations EXCEPT ![w].pc = "done"]
    /\ pool' = pool
    /\ ConcurrentUnchanged

\* Call w runs one iteration of the loop of lines 133-145.
RemoveBy(w) ==
    /\ invocations[w].pc = "reconcile"
    /\ invocations[w].removed < Len(FailuresToRemove(invocations[w].res))
    /\ pool' = removeOne(pool, FailuresToRemove(invocations[w].res)[invocations[w].removed + 1])
    /\ invocations' = [invocations EXCEPT ![w].removed = @ + 1]
    /\ ConcurrentUnchanged

\* Call w leaves the loops and returns next, nil.
ReturnBy(w) ==
    /\ invocations[w].pc = "reconcile"
    /\ invocations[w].removed = Len(FailuresToRemove(invocations[w].res))
    /\ invocations' = [invocations EXCEPT ![w].pc = "done"]
    /\ pool' = pool
    /\ ConcurrentUnchanged

NextConcurrent ==
    \E w \in Invocations :
        \/ PendingBy(w)
        \/ ApplyBy(w)
        \/ FinishBy(w)
        \/ FailBy(w)
        \/ RemoveBy(w)
        \/ ReturnBy(w)

SpecConcurrent == InitConcurrent /\ [][NextConcurrent]_vars

(* ------------------------------ claims --------------------------------- *)

\* Collaborator op was called in this attempt / and succeeded / and failed.
Called(op) == \E i \in DOMAIN calls : calls[i].op = op

Succeeded(op) == \E i \in DOMAIN calls : calls[i].op = op /\ calls[i].ok

Failed(op) == \E i \in DOMAIN calls : calls[i].op = op /\ ~calls[i].ok

\* Generate has returned / has returned a block / the block it returned.
Returned == pc = "done"

ReturnedBlock == pc = "done" /\ ret.block # NilBlock

Blk == ret.block[1]

IsBLS(m) == m.Message.From = BLS

\* C1: when Generate returns an error, whichever stage failed, the pool holds
\* exactly the messages it held when the call started, and Remove was never called.
C1_FailedAttemptLeavesPool ==
    (Returned /\ ret.err # "") => (pool = pool0 /\ ~Called("Remove"))

\* C1 witness: signing failed after the processor reported a permanent failure
\* of a pending message whose Cid() can be computed.
C1_Witness ==
    /\ Returned
    /\ Failed("SignBytes")
    /\ \E i \in DOMAIN res.PermanentFailures :
          res.PermanentFailures[i] \in pool0 /\ ~res.PermanentFailures[i].cidFails

\* The collaborators Generate calls after the power check.
AfterPowerCheck ==
    {"Pending", "ApplyMessagesAndPayRewards", "stateTree.Flush", "vms.Flush",
     "StoreMessages", "StoreReceipts", "SignBytes", "Remove"}

\* C2: when the power table says the miner has no power, Generate has returned
\* an error and no block, and has not read the pool, applied messages, flushed,
\* stored, signed or removed anything.
C2_NoPowerAbortsBeforeAnyEffect ==
    (Called("HasPower") /\ MinerAddr \notin powerTable) =>
        /\ Returned
        /\ ret.block = NilBlock
        /\ ret.err # ""
        /\ \A op \in AfterPowerCheck : ~Called(op)
        /\ pool = pool0
        /\ drained = <<>> /\ messages = <<>>
        /\ applied = ZeroApplied
        /\ newStateTreeCid = UndefCid
        /\ storedMessages = ZeroStoredMessages /\ storedReceipts = NilSlice
        /\ signedData = ZeroSigned

\* C2 witness: the power check failed with messages pending.
C2_Witness == Called("HasPower") /\ MinerAddr \notin powerTable /\ pool0 # {}

\* C3: Generate returns a block exactly when it returns no error; a returned
\* block carries the signature SignBytes produced, in a successful call, over
\* that block's signable bytes with the worker address resolved for the miner
\* and the parent key; a failed lookup or signing returns no block.
C3_ReturnedBlockIsSigned ==
    /\ ~Returned => ret = NoReturn
    /\ Returned => ((ret.block # NilBlock) <=> (ret.err = ""))
    /\ ReturnedBlock =>
          /\ Succeeded("MinerGetWorkerAddress")
          /\ Succeeded("SignBytes")
          /\ signedData = [data |-> SignatureData(Blk),
                           addr |-> WorkerAddressOf(MinerAddr, args.baseTipSet.key)]
          /\ Blk.BlockSig = SignBytes(SignatureData(Blk),
                                      WorkerAddressOf(Blk.Miner, Blk.Parents))
    /\ (Failed("MinerGetWorkerAddress") \/ Failed("SignBytes")) =>
          (Returned /\ ret.block = NilBlock /\ ret.err # "")

\* C3 witness: a block was returned after a successful signing.
C3_Witness == ReturnedBlock /\ Succeeded("SignBytes") /\ Blk.BlockSig # ZeroBlockSig

\* C4: a block is returned only after both flushes succeeded, and its StateRoot
\* is the root the state-tree flush returned; when a flush fails Generate
\* returns an error and no block and calls neither StoreMessages nor StoreReceipts.
C4_BlockReferencesFlushedState ==
    /\ ReturnedBlock =>
          /\ Succeeded("stateTree.Flush")
          /\ Succeeded("vms.Flush")
          /\ newStateTreeCid = CidOf(stateTree)
          /\ Blk.StateRoot = newStateTreeCid
    /\ (Failed("stateTree.Flush") \/ Failed("vms.Flush")) =>
          /\ Returned
          /\ ret.block = NilBlock
          /\ ret.err # ""
          /\ ~Called("StoreMessages")
          /\ ~Called("StoreReceipts")

\* C4 witness: a block was returned whose state tree had messages applied.
C4_Witness == ReturnedBlock /\ stateTree.applied # <<>>

\* C5: in the sequence handed to ApplyMessagesAndPayRewards every message with
\* a BLS sender comes before every message with another sender.
C5_BLSFirst ==
    Called("ApplyMessagesAndPayRewards") =>
        \A i, j \in DOMAIN applied.messages :
            (i < j /\ IsBLS(applied.messages[j])) => IsBLS(applied.messages[i])

\* C5 witness: the queue drained a non-BLS message before a BLS message.
C5_Witness ==
    /\ Called("ApplyMessagesAndPayRewards")
    /\ \E i, j \in DOMAIN drained : i < j /\ ~IsBLS(drained[i]) /\ IsBLS(drained[j])

\* How often m occurs in the sequence q.
Count(m, q) == Cardinality({i \in DOMAIN q : q[i] = m})

\* The elements of the sequence q.
Range(q) == {q[i] : i \in DOMAIN q}

BLSOf(q) == SelectSeq(q, LAMBDA m : IsBLS(m))

NonBLSOf(q) == SelectSeq(q, LAMBDA m : ~IsBLS(m))

\* C6: divideMessages is an order-preserving partition: the BLS output is the
\* input's BLS messages in input order, the other output the remaining messages
\* in input order, every message as often as in the input; the application
\* order built from them holds every input message exactly as often as the
\* input, reordered only by putting the BLS messages first.
C6_DivideIsOrderPreservingPartition ==
    dmOut # <<>> =>
        /\ dmOut[2] = BLSOf(dmIn)
        /\ dmOut[1] = NonBLSOf(dmIn)
        /\ \A m \in Msgs :
              /\ Count(m, dmOut[1]) + Count(m, dmOut[2]) = Count(m, dmIn)
              /\ IsBLS(m) => Count(m, dmOut[1]) = 0
              /\ ~IsBLS(m) => Count(m, dmOut[2]) = 0
              /\ Count(m, dmOut[3]) = Count(m, dmIn)
        /\ dmOut[3] = BLSOf(dmIn) \o NonBLSOf(dmIn)

\* C6 witness: divideMessages ran on an input with a repeated message and a
\* non-BLS message between two different BLS messages.
C6_Witness ==
    /\ dmOut # <<>>
    /\ \E i, j, k \in DOMAIN dmIn :
          /\ i < j /\ j < k
          /\ IsBLS(dmIn[i]) /\ ~IsBLS(dmIn[j]) /\ IsBLS(dmIn[k])
          /\ dmIn[i] # dmIn[k]
    /\ \E a, b \in DOMAIN dmIn : a # b /\ dmIn[a] = dmIn[b]

\* The batch handed to StoreMessages holds neither m nor its body.
NotInBatch(m) ==
    /\ m \notin Range(storedMessages.secp)
    /\ m.Message \notin Range(storedMessages.bls)

\* C7: after a successful Generate, a permanently failed message whose Cid()
\* can be computed is no longer pending, and the block's message batch does
\* not contain it.
C7_PermanentFailuresRemoved ==
    (Returned /\ ret.err = "") =>
        /\ Blk.Messages = StoreMessagesRef(storedMessages.secp, storedMessages.bls)
        /\ \A i \in DOMAIN res.PermanentFailures :
              ~res.PermanentFailures[i].cidFails =>
                  /\ res.PermanentFailures[i] \notin pool
                  /\ NotInBatch(res.PermanentFailures[i])

\* C7 witness: a block was returned after two pending messages failed
\* permanently, one of them with a computable Cid().
C7_Witness ==
    /\ Returned /\ ret.err = ""
    /\ Len(res.PermanentFailures) >= 2
    /\ \E i \in DOMAIN res.PermanentFailures :
          res.PermanentFailures[i] \in pool0 /\ ~res.PermanentFailures[i].cidFails

\* C8: a temporarily failed message that was pending when Generate was called
\* is still pending, at every point of the call and after it, whether it fails
\* or succeeds; a returned block's message batch does not contain it.
C8_TemporaryFailuresStay ==
    \A i \in DOMAIN res.TemporaryFailures :
        /\ res.TemporaryFailures[i] \in pool0 => res.TemporaryFailures[i] \in pool
        /\ ReturnedBlock =>
              /\ Blk.Messages = StoreMessagesRef(storedMessages.secp, storedMessages.bls)
              /\ NotInBatch(res.TemporaryFailures[i])

\* C8 witness: a block was returned, a permanent failure was removed and a
\* temporary failure was reported.
C8_Witness ==
    /\ ReturnedBlock
    /\ Called("Remove")
    /\ res.TemporaryFailures # <<>>

\* C9: the list handed to StoreReceipts is never nil, has one receipt per
\* successfully applied message, the i-th being the receipt of the i-th
\* result, and a returned block's MessageReceipts is its reference.
C9_ReceiptsMatchResults ==
    Called("StoreReceipts") =>
        /\ ~storedReceipts.isNil
        /\ Len(storedReceipts.elems) = Len(res.Results)
        /\ Len(storedReceipts.elems) = Len(res.SuccessfulMessages)
        /\ \A i \in DOMAIN res.Results : storedReceipts.elems[i] = res.Results[i].Receipt
        /\ ReturnedBlock => Blk.MessageReceipts = StoreReceiptsRef(storedReceipts)

\* C9 witness: a block was returned with no message applied while messages
\* were pending.
C9_Witness ==
    /\ ReturnedBlock
    /\ res.Results = <<>>
    /\ drained # <<>>
    /\ storedReceipts = EmptySlice

\* C10: the batch handed to StoreMessages is the successful non-BLS messages as
\* signed messages, in order, and the bodies of the successful BLS messages, in
\* order; the aggregate signature is over the signatures of exactly those BLS
\* messages, in the same order; no failed message is in the batch.
C10_BatchIsSuccessfulMessages ==
    Called("StoreMessages") =>
        LET blsOk == BLSOf(res.SuccessfulMessages) IN
        /\ storedMessages.secp = NonBLSOf(res.SuccessfulMessages)
        /\ storedMessages.bls = [i \in 1..Len(blsOk) |-> blsOk[i].Message]
        /\ blsAggregateSig = Aggregate([i \in 1..Len(blsOk) |-> blsOk[i].Signature])
        /\ \A m \in Range(res.PermanentFailures) \cup Range(res.TemporaryFailures) :
              NotInBatch(m) /\ m.Signature \notin Range(blsAggregateSig.of)
        /\ ReturnedBlock =>
              /\ Blk.Messages = StoreMessagesRef(storedMessages.secp, storedMessages.bls)
              /\ Blk.BLSAggregateSig = blsAggregateSig

\* C10 witness: a batch was stored with two BLS messages and one non-BLS
\* message applied.
C10_Witness ==
    /\ Called("StoreMessages")
    /\ Len(BLSOf(res.SuccessfulMessages)) = 2
    /\ Len(NonBLSOf(res.SuccessfulMessages)) = 1

\* C11: aggregating no BLS message does not fail: with no successful BLS
\* message the aggregation gives no unwrapped body, the aggregate of no
\* signature and no error, so that stage never ends the attempt; a block
\* returned from an empty pool is signed and references the empty message
\* batch and the empty (non-nil) receipt list.
C11_EmptyAggregateIsDefined ==
    /\ (Called("bls.Aggregate") /\ minedBLSMessages = <<>>) =>
          /\ Succeeded("bls.Aggregate")
          /\ unwrappedBLSMessages = <<>>
          /\ blsAggregateSig = Aggregate(<<>>)
          /\ ret.err # "could not aggregate bls messages"
    /\ (ReturnedBlock /\ pool0 = {}) =>
          /\ Blk.Messages = StoreMessagesRef(<<>>, <<>>)
          /\ Blk.MessageReceipts = StoreReceiptsRef(EmptySlice)
          /\ Blk.BLSAggregateSig = Aggregate(<<>>)
          /\ Blk.BlockSig = SignBytes(SignatureData(Blk),
                                      WorkerAddressOf(Blk.Miner, Blk.Parents))

\* The unsigned sum parentHeight + nullBlockCount + 1 of the current call.
NewHeight == (args.baseTipSet.height + args.nullBlockCount + 1) % 2^UintBits

\* C12: the target height of the ancestor lookup, the height handed to the
\* processor and the height recorded in the block are the same value, the
\* unsigned sum parentHeight + nullBlockCount + 1.
C12_OneHeight ==
    /\ Succeeded("getAncestors") => ancestors.upTo = NewHeight
    /\ Called("ApplyMessagesAndPayRewards") =>
          (applied.height = NewHeight /\ applied.ancestors.upTo = NewHeight)
    /\ pc \in {"sign", "reconcile"} => next.Height = NewHeight
    /\ ReturnedBlock => Blk.Height = NewHeight

\* C12 witness: a block was returned for a parent at height 10 after one null block.
C12_Witness ==
    /\ ReturnedBlock
    /\ args.baseTipSet.height = 10
    /\ args.nullBlockCount = 1
    /\ Blk.Height = 12
    /\ applied.height = 12
    /\ ancestors.upTo = 12

\* Call w has drained its queue.
HasDrained(w) == invocations # <<>> /\ invocations[w].didDrain

\* Call w is between its drain and its return.
InFlight(w) == invocations # <<>> /\ invocations[w].pc \in {"apply", "finish", "reconcile"}

\* The messages call w handed, or will hand, to the processor.
HandedBy(w) == Range(invocations[w].messages)

\* C13 as stated: two calls in flight at the same time have disjoint drained sets.
C13_DrainsAreDisjoint ==
    (InFlight(1) /\ InFlight(2)) =>
        /\ Range(invocations[1].drained) \cap Range(invocations[2].drained) = {}
        /\ HandedBy(1) \cap HandedBy(2) = {}

\* C13, amended: draining is not exclusive. Each call drains and hands to
\* the processor exactly the messages that were in the pool when it read it,
\* the read leaves the pool as it was, and so two calls share every message
\* that was pending at both reads.
C13_DrainsShareThePool ==
    /\ \A w \in Invocations : HasDrained(w) =>
          /\ Range(invocations[w].drained) = invocations[w].pending
          /\ HandedBy(w) = invocations[w].pending
          /\ Len(invocations[w].messages) = Cardinality(invocations[w].pending)
          /\ pool \subseteq HandedBy(w)
    /\ (invocations # <<>> /\ \A w \in Invocations : invocations[w].removed = 0) => pool = pool0
    /\ (HasDrained(1) /\ HasDrained(2)) =>
          HandedBy(1) \cap HandedBy(2) = invocations[1].pending \cap invocations[2].pending

\* C13 witness: both calls are in flight and hold the same two messages.
C13_Witness ==
    /\ InFlight(1)
    /\ InFlight(2)
    /\ Cardinality(HandedBy(1) \cap HandedBy(2)) = 2
    /\ invocations[1].messages # <<>>

\* The fallible stages: the collaborator each calls and the context its error is wrapped with.
StageContext ==
    { <<"getStateTree", "get state tree">>,
      <<"getPowerTable", "get power table">>,
      <<"getWeight", "get weight">>,
      <<"Height", "get base tip set height">>,
      <<"getAncestors", "get base tip set ancestors">>,
      <<"ApplyMessagesAndPayRewards", "generate apply messages">>,
      <<"stateTree.Flush", "generate flush state tree">>,
      <<"vms.Flush", "generate flush vm storage map">>,
      <<"bls.Aggregate", "could not aggregate bls messages">>,
      <<"StoreMessages", "error persisting messages">>,
      <<"StoreReceipts", "error persisting receipts">>,
      <<"MinerGetWorkerAddress", "failed to read workerAddr during block generation">>,
      <<"SignBytes", "failed to sign block">> }

\* How often the current call invoked op.
TimesCalled(op) == Cardinality({i \in DOMAIN calls : calls[i].op = op})

\* C14: when a fallible stage fails, Generate has returned no block and the
\* error with that stage's context, the stage's collaborator was invoked once,
\* and its failed call is the last collaborator call of the attempt.
C14_FailureAborts ==
    \A st \in StageContext :
        Failed(st[1]) =>
            /\ Returned
            /\ ret.block = NilBlock
            /\ ret.err = st[2]
            /\ TimesCalled(st[1]) = 1
            /\ calls[Len(calls)] = [op |-> st[1], ok |-> FALSE]

\* C14 witness: StoreReceipts failed after StoreMessages had succeeded.
C14_Witness ==
    /\ Failed("StoreReceipts")
    /\ Succeeded("StoreMessages")
    /\ Returned
    /\ ret.err = "error persisting receipts"
    /\ res.SuccessfulMessages # <<>>

\* Some permanent failure of the current call has no computable Cid().
CidFailureAmongPermanent == \E i \in DOMAIN res.PermanentFailures : res.PermanentFailures[i].cidFails

\* C15: when the block was signed and the Cid() of a permanently failed
\* message cannot be computed, Generate returns the signed block and no error,
\* that message stays in the pool, and every permanent failure whose Cid()
\* can be computed, before and after it in the list, is out of the pool.
C15_CidFailureNotEscalated ==
    (Returned /\ Succeeded("SignBytes") /\ CidFailureAmongPermanent) =>
        /\ ret.err = ""
        /\ ret.block = SomeBlock(next)
        /\ next.BlockSig = SignBytes(signedData.data, signedData.addr)
        /\ ~ \E i \in DOMAIN calls : ~calls[i].ok
        /\ \A i \in DOMAIN res.PermanentFailures :
              LET m == res.PermanentFailures[i] IN
              /\ (m.cidFails /\ m \in pool0) => m \in pool
              /\ ~m.cidFails => m \notin pool
        /\ TimesCalled("Remove") =
              Cardinality({i \in DOMAIN res.PermanentFailures : ~res.PermanentFailures[i].cidFails})

\* C15 witness: three pending messages failed permanently, the second of
\* them without a computable Cid(); the pool holds only that one.
C15_Witness ==
    /\ ReturnedBlock
    /\ Len(res.PermanentFailures) = 3
    /\ res.PermanentFailures[2].cidFails
    /\ ~res.PermanentFailures[1].cidFails
    /\ ~res.PermanentFailures[3].cidFails
    /\ pool = {res.PermanentFailures[2]}
    /\ Cardinality(pool0) = 3

\* C17: a returned block records the worker's miner address, the parent's
\* key, the weight the oracle gave for the parent, the caller's election proof
\* and tickets, the references StoreMessages and StoreReceipts returned in
\* this call, the clock's reading and the aggregate aggregateBLS returned.
C17_BlockRecordsInputs ==
    ReturnedBlock =>
        /\ Blk.Miner = MinerAddr
        /\ Blk.Parents = args.baseTipSet.key
        /\ Blk.ParentWeight = WeightOf(args.baseTipSet)
        /\ Blk.ElectionProof = args.electionProof
        /\ Blk.Tickets = args.tickets
        /\ Blk.Messages = StoreMessagesRef(storedMessages.secp, storedMessages.bls)
        /\ Blk.Messages = txMeta
        /\ Blk.MessageReceipts = StoreReceiptsRef(storedReceipts)
        /\ Blk.MessageReceipts = rcptsCid
        /\ Blk.Timestamp = clockNow
        /\ Blk.Timestamp \in Times
        /\ Blk.BLSAggregateSig = blsAggregateSig
        /\ Blk.BLSAggregateSig = Aggregate([i \in 1..Len(minedBLSMessages) |->
                                              CopySig(minedBLSMessages[i].Signature)])

\* C17 witness: a block for tip set 2, election 2 and clock reading 2 was
\* returned with a stored BLS message and a stored receipt.
C17_Witness ==
    /\ ReturnedBlock
    /\ args.baseTipSet.key = 2
    /\ args.electionProof = 102
    /\ Blk.Timestamp = 2
    /\ Blk.ParentWeight = 111
    /\ storedMessages.bls # <<>>
    /\ Len(storedReceipts.elems) >= 2

\* C18 as stated: right after the drain, no message that was pending when it
\* was taken is still in the pool.
C18_DrainEmptiesPool ==
    pc = "apply" => (Range(drained) \cap pool = {} /\ pool0 \cap pool = {})

\* C18, amended: the drain takes every pending message, once, into the
\* call's drained sequence and removes nothing from the pool: right after it,
\* and until the failure loop runs, the pool holds what it held before.
C18_DrainLeavesPool ==
    /\ pc = "apply" =>
          /\ Range(drained) = pool0
          /\ Len(drained) = Cardinality(pool0)
          /\ pool = pool0
    /\ (Called("Pending") /\ ~Called("Remove")) => (pool = pool0 /\ Range(drained) \subseteq pool)

\* C18 witness: three messages were pending, and all three were drained.
C18_Witness ==
    /\ pc = "apply"
    /\ Cardinality(pool0) = 3
    /\ Len(drained) = 3
    /\ pool = Range(drained)

\* The chain-context lookups the source makes after the power check.
AfterPowerCheckContext == {"getWeight", "Height", "getAncestors"}

\* C19 as stated: whenever HasPower is consulted, the state tree, the weight
\* and the ancestors have been resolved, and the pool has not been drained.
C19_PowerCheckAfterWholeContext ==
    Called("HasPower") =>
        /\ Succeeded("getStateTree")
        /\ Succeeded("getWeight")
        /\ Succeeded("getAncestors")
        /\ (Failed("HasPower") => ~Called("Pending"))

\* C19, amended: HasPower is consulted right after the state tree and the
\* power table were loaded, as the third collaborator call, before the weight,
\* height and ancestor lookups and before the drain: none of those is made
\* unless the check passed, so ineligibility is reported in preference to
\* their failures.
C19_PowerCheckAfterStateAndTable ==
    /\ Called("HasPower") =>
          /\ Succeeded("getStateTree")
          /\ Succeeded("getPowerTable")
          /\ calls[3].op = "HasPower"
          /\ <<calls[1].op, calls[2].op>> = <<"getStateTree", "getPowerTable">>
    /\ \A op \in AfterPowerCheckContext \cup {"Pending"} : Called(op) => Succeeded("HasPower")
    /\ Failed("HasPower") =>
          /\ Len(calls) = 3
          /\ ret.err = "bad miner address, miner must store files before mining"

\* C19 witness: the weight lookup failed after the power check had passed.
C19_Witness ==
    /\ Succeeded("HasPower")
    /\ Failed("getWeight")
    /\ ~Called("getAncestors")
    /\ Returned

\* C20: the height of a returned block is strictly greater than the height
\* of its parent tip set, whatever unsigned nullBlockCount the caller passed.
C20_HeightAboveParent ==
    ReturnedBlock => Blk.Height > args.baseTipSet.height

====
